---- MODULE Spec2Model ----
(***************************************************************************)
(* Outbound delivery subsystem of the WhatsApp relay: the session          *)
(* controller, the message queue and its worker (WhatsAppService), the     *)
(* message ledger (MessageService) and the HTTP routes and the shutdown    *)
(* handler of the server entry point that drive them.                      *)
(*                                                                         *)
(* One action is one macrotask of the Node.js event loop: an event         *)
(* handler, a timer callback, a route handler or the continuation of an    *)
(* await on real I/O (client.sendMessage, client.destroy,                  *)
(* client.initialize, delay).  Everything such a task runs synchronously,  *)
(* including the synchronous prefix of the async functions it calls, is    *)
(* part of the action.                                                     *)
(***************************************************************************)
EXTENDS Integers, Sequences, FiniteSets, Bags, TLC

\* ------------------------------------------------------------------ bounds
MaxHandles == 2        \* session handles (new Client) created in one run
MaxRequests == 2       \* send requests accepted in one run
MaxWorkers == 2        \* activations of startQueueProcessor the model can hold
MaxSessions == 3       \* session handles alive in one run of the session controller alone
MaxRecycles == 4       \* destroyed handles whose identity is used again for a new Client
MaxLedgerIds == 2      \* message ids the record operations of the ledger alone are called with
MaxPhoneLen == 11      \* characters of a recipient given to formatPhoneNumber
MaxBodyLen == 2        \* pieces of the message of a send request

\* ------------------------------------------------------- program constants
maxReconnectAttempts == 5
reconnectDelay == 30000  \* milliseconds
DefaultMaxAttempts == 3
LedgerCapacity == 1000

NoHandle == 0
NoItem == [id |-> 0, originalId |-> 0, attempts |-> 0, maxAttempts |-> 0]
AckLevels == 0..4

VARIABLES
  client,             \* this.client: the handle the service sends through, or NoHandle
  isClientReady,      \* this.isClientReady
  qrCodeData,         \* this.qrCodeData: the handle whose pairing code is stored, or NoHandle
  messageQueue,       \* this.messageQueue: sequence of queue items
  isProcessingQueue,  \* this.isProcessingQueue
  reconnectAttempts,  \* this.reconnectAttempts
  isShuttingDown,     \* this.isShuttingDown
  hstate,             \* chat channel: phase of every handle ever created
  initCaller,         \* the caller suspended in `await this.client.initialize()` of the handle
  workers,            \* activations of startQueueProcessor: position, item in flight, handle used
  timers,             \* pending reconnection timers (bag of the delays they were set with)
  tasks,              \* async callers suspended in `await this.client.destroy()` (bag)
  sd,                 \* position of gracefulShutdown: none, waiting, destroying, exited
  emitted,            \* io.emit('message-update', ...) of the worker (bag of events)
  whatsappErrors,     \* io.emit('whatsapp-error', ...) of scheduleReconnect: how many so far
  lastAck,            \* the last message_ack event delivered: <<item id, level>>
  messages,           \* MessageService.messages (newest first)
  messageStats,       \* MessageService.messageStats
  requests,           \* send requests accepted so far; the n-th makes item n
  started,            \* history: delivery attempts begun, per item id
  sentVia,            \* history: the handle through which the item's send resolved, or NoHandle
  failedItems,        \* history: items dropped after their last attempt
  recycled,           \* destroyed handles whose identity the model has taken back
  recentSend,         \* time: a send has succeeded and less than messageDelay has passed since
  recorded,           \* history: the status of the last record operation, per id recorded
  formatted,          \* the last call of formatPhoneNumber: <<argument, result>>
  files,              \* per item id, the file of its filePath: none, present or deleted
  cleanups,           \* the item ids whose file a pending clean-up timer will delete
  notified,           \* the readiness the last status notification told the observers
  payload             \* per item id, the phoneNumber and message of the item enqueued

vars == <<client, isClientReady, qrCodeData, messageQueue, isProcessingQueue,
          reconnectAttempts, isShuttingDown, hstate, initCaller, workers, timers,
          tasks, sd, emitted, whatsappErrors, lastAck, messages, messageStats, requests,
          started, sentVia, failedItems, recycled, recentSend, recorded,
          formatted, files, cleanups, notified, payload>>

sessionVars == <<client, isClientReady, qrCodeData, reconnectAttempts, hstate,
                 initCaller, timers, tasks>>
queueVars == <<messageQueue, isProcessingQueue, workers, emitted, started,
               sentVia, failedItems>>
ledgerVars == <<messages, messageStats, recorded>>
auxVars == <<formatted, files, cleanups, notified, payload>>

Handles == DOMAIN hstate

IdleWorker == [pc |-> "idle", item |-> NoItem, h |-> NoHandle]

Init ==
  /\ client = NoHandle
  /\ isClientReady = FALSE
  /\ qrCodeData = NoHandle
  /\ messageQueue = <<>>
  /\ isProcessingQueue = FALSE
  /\ reconnectAttempts = 0
  /\ isShuttingDown = FALSE
  /\ hstate = [h \in 1..MaxHandles |-> "none"]
  /\ initCaller = [h \in 1..MaxHandles |-> "none"]
  /\ workers = [w \in 1..MaxWorkers |-> IdleWorker]
  /\ timers = EmptyBag
  /\ tasks = EmptyBag
  /\ sd = "none"
  /\ emitted = EmptyBag
  /\ whatsappErrors = 0
  /\ lastAck = <<0, 0>>
  /\ messages = <<>>
  /\ messageStats = [total |-> 0, sent |-> 0, failed |-> 0, pending |-> 0, queued |-> 0]
  /\ requests = 0
  /\ started = [r \in 1..MaxRequests |-> 0]
  /\ sentVia = [r \in 1..MaxRequests |-> NoHandle]
  /\ failedItems = {}
  /\ recycled = 0
  /\ recentSend = FALSE
  /\ recorded = <<>>
  /\ formatted = <<<<>>, <<>>>>
  /\ files = [r \in 1..MaxRequests |-> "none"]
  /\ cleanups = {}
  /\ notified = FALSE
  /\ payload = [r \in 1..MaxRequests |-> [phoneNumber |-> <<>>, message |-> <<>>]]

\* ---------------------------------------------------------------- ledger
\* MessageService.updateStats: the aggregates, recomputed from the entries.
CountStatus(msgs, S) == Cardinality({i \in DOMAIN msgs : msgs[i].status \in S})

UpdateStats(msgs) ==
  [total |-> Len(msgs),
   sent |-> CountStatus(msgs, {"sent", "delivered", "read"}),
   failed |-> CountStatus(msgs, {"failed"}),
   pending |-> CountStatus(msgs, {"pending"}),
   queued |-> CountStatus(msgs, {"queued"})]

\* MessageService.logMessage, the entry list it leaves: update in place the
\* entry with the same id, else insert at the front; then keep the first
\* LedgerCapacity entries.
Merge(old, new) ==
  [f \in DOMAIN old \cup DOMAIN new |-> IF f \in DOMAIN new THEN new[f] ELSE old[f]]

\* logMessage that trims from the front (keeps the last LedgerCapacity
\* entries, slice(-1000), dropping the newest).
LogMessage_TrimsNewest(msgs, m) ==
  LET found == {i \in DOMAIN msgs : msgs[i].id = m.id}
      existingIndex == IF found = {} THEN 0
                       ELSE CHOOSE i \in found : \A j \in found : i <= j
      put == IF existingIndex # 0
             THEN [msgs EXCEPT ![existingIndex] = Merge(msgs[existingIndex], m)]
             ELSE <<m>> \o msgs
  IN IF Len(put) > LedgerCapacity
     THEN SubSeq(put, Len(put) - LedgerCapacity + 1, Len(put))
     ELSE put

\* logMessage that always inserts (no search for an entry with the same id).
LogMessage_InsertOnly(msgs, m) ==
  LET put == <<m>> \o msgs
  IN IF Len(put) > LedgerCapacity THEN SubSeq(put, 1, LedgerCapacity) ELSE put

LogMessage(msgs, m) ==
  LET found == {i \in DOMAIN msgs : msgs[i].id = m.id}
      existingIndex == IF found = {} THEN 0
                       ELSE CHOOSE i \in found : \A j \in found : i <= j
      put == IF existingIndex # 0
             THEN [msgs EXCEPT ![existingIndex] = Merge(msgs[existingIndex], m)]
             ELSE <<m>> \o msgs
  IN IF Len(put) > LedgerCapacity THEN SubSeq(put, 1, LedgerCapacity) ELSE put

\* updateMessageStatus: the record it builds goes through logMessage; the
\* error is added for 'failed' when the caller passes one.
UpdateMessageStatus(msgs, id, status, error) ==
  LogMessage(msgs, IF status = "failed" /\ error # "none"
                   THEN [id |-> id, status |-> status, error |-> error]
                   ELSE [id |-> id, status |-> status])

\* ------------------------------------------------------- queue and worker
BagAdd(b, e) == b (+) SetToBag({e})

\* The 'message-update' of a successful send with status 'queued' for 'sent'.
SentUpdate_Queued(item) == [id |-> item.originalId, status |-> "queued", error |-> "none"]

\* io.emit('message-update', ...) as the worker emits it.
SentUpdate(item) == [id |-> item.originalId, status |-> "sent", error |-> "none"]
FailedUpdate(item) == [id |-> item.originalId, status |-> "failed", error |-> "message"]

\* The part of the state the worker's synchronous code reads and writes.
Core == [queue |-> messageQueue, emitted |-> emitted, started |-> started,
         failed |-> failedItems]

\* handleQueueItemError with the retried item put at the tail (push for
\* unshift).
HandleQueueItemError_Tail(c, item) ==
  LET bumped == [item EXCEPT !.attempts = item.attempts + 1]
  IN IF bumped.attempts < bumped.maxAttempts
     THEN [c EXCEPT !.queue = Append(c.queue, bumped)]
     ELSE [c EXCEPT !.emitted = BagAdd(c.emitted, FailedUpdate(bumped)),
                    !.failed = c.failed \cup {bumped.id}]

\* handleQueueItemError with the ceiling compared by <= for <.
HandleQueueItemError_OffByOne(c, item) ==
  LET bumped == [item EXCEPT !.attempts = item.attempts + 1]
  IN IF bumped.attempts <= bumped.maxAttempts
     THEN [c EXCEPT !.queue = <<bumped>> \o c.queue]
     ELSE [c EXCEPT !.emitted = BagAdd(c.emitted, FailedUpdate(bumped)),
                    !.failed = c.failed \cup {bumped.id}]

\* handleQueueItemError that does not put the item back below the ceiling.
HandleQueueItemError_NoRequeue(c, item) ==
  LET bumped == [item EXCEPT !.attempts = item.attempts + 1]
  IN IF bumped.attempts < bumped.maxAttempts
     THEN c
     ELSE [c EXCEPT !.emitted = BagAdd(c.emitted, FailedUpdate(bumped)),
                    !.failed = c.failed \cup {bumped.id}]

\* handleQueueItemError: count the attempt; put the item back at the front
\* while it is below its ceiling, else report it failed and drop it.
HandleQueueItemError(c, item) ==
  LET bumped == [item EXCEPT !.attempts = item.attempts + 1]
  IN IF bumped.attempts < bumped.maxAttempts
     THEN [c EXCEPT !.queue = <<bumped>> \o c.queue]
     ELSE [c EXCEPT !.emitted = BagAdd(c.emitted, FailedUpdate(bumped)),
                    !.failed = c.failed \cup {bumped.id}]

\* The loop condition without its shutdown test.
LoopContinues_NoShutdownTest(q, ready, shutting) == Len(q) > 0 /\ ready

\* The loop condition without its readiness test.
LoopContinues_NoReadyTest(q, ready, shutting) == Len(q) > 0 /\ ~shutting

\* The loop condition of startQueueProcessor.
LoopContinues(q, ready, shutting) == Len(q) > 0 /\ ready /\ ~shutting

\* The while loop of startQueueProcessor from its condition up to the next
\* await on I/O: pop the head and call processQueueItem, which suspends in
\* client.sendMessage; with no client the call throws at once, the error is
\* handled and the loop goes on.  Ends with the worker suspended in a send
\* or out of the loop.
RECURSIVE WorkerLoop(_, _, _, _)

WorkerLoop(c, ready, shutting, cl) ==
  IF LoopContinues(c.queue, ready, shutting)
  THEN LET item == Head(c.queue)
           popped == [c EXCEPT !.queue = Tail(c.queue),
                               !.started[item.id] = c.started[item.id] + 1]
       IN IF cl = NoHandle
          THEN WorkerLoop(HandleQueueItemError(popped, item), ready, shutting, cl)
          ELSE [core |-> popped,
                worker |-> [pc |-> "sending", item |-> item, h |-> cl]]
  ELSE [core |-> c, worker |-> IdleWorker]

IdleSlots(ws) == {w \in DOMAIN ws : ws[w].pc = "idle"}

\* startQueueProcessor without the test of isProcessingQueue in its guard.
StartQueueProcessor_NoFlagTest(c, ws, processing, ready, shutting, cl) ==
  IF ~ready \/ IdleSlots(ws) = {}
  THEN [core |-> c, workers |-> ws, processing |-> processing]
  ELSE LET w == CHOOSE x \in IdleSlots(ws) : \A y \in IdleSlots(ws) : x <= y
           r == WorkerLoop(c, ready, shutting, cl)
       IN [core |-> r.core,
           workers |-> [ws EXCEPT ![w] = r.worker],
           processing |-> r.worker.pc # "idle"]

\* startQueueProcessor as called by the ready handler and by addToQueue:
\* nothing when a worker is processing or the client is not ready; else the
\* flag is set and the loop runs up to its first await.
StartQueueProcessor(c, ws, processing, ready, shutting, cl) ==
  IF processing \/ ~ready \/ IdleSlots(ws) = {}
  THEN [core |-> c, workers |-> ws, processing |-> processing]
  ELSE LET w == CHOOSE x \in IdleSlots(ws) : \A y \in IdleSlots(ws) : x <= y
           r == WorkerLoop(c, ready, shutting, cl)
       IN [core |-> r.core,
           workers |-> [ws EXCEPT ![w] = r.worker],
           processing |-> r.worker.pc # "idle"]

\* addToQueue: a new item at the tail, then the worker is woken when idle
\* and the client ready.
NewItem(id, orig) ==
  [id |-> id, originalId |-> orig, attempts |-> 0, maxAttempts |-> DefaultMaxAttempts]

AddToQueue(c, ws, processing, ready, shutting, cl, item) ==
  LET pushed == [c EXCEPT !.queue = Append(c.queue, item)]
  IN IF ~processing /\ ready
     THEN StartQueueProcessor(pushed, ws, processing, ready, shutting, cl)
     ELSE [core |-> pushed, workers |-> ws, processing |-> processing]

\* Writes back what the worker's synchronous code computed.
SetCore(c) ==
  /\ messageQueue' = c.queue
  /\ emitted' = c.emitted
  /\ started' = c.started
  /\ failedItems' = c.failed

Running == sd # "exited"

\* ------------------------------------------------------------- session
FreeHandles == {h \in Handles : hstate[h] = "none"}
NewHandle == CHOOSE h \in FreeHandles : \A g \in FreeHandles : h <= g

\* scheduleReconnect with a doubling delay (reconnectDelay * 2^n).
ScheduleReconnect_Exponential(attempts, tm) ==
  IF attempts >= maxReconnectAttempts
  THEN [attempts |-> attempts, timers |-> tm, errors |-> 1]
  ELSE [attempts |-> attempts + 1,
        timers |-> BagAdd(tm, reconnectDelay * 2^(attempts + 1)),
        errors |-> 0]

\* scheduleReconnect: once the budget is used up nothing is scheduled and
\* 'whatsapp-error' (Max reconnection attempts reached) is emitted; else the
\* counter goes up and a timer is set with the delay of the new attempt.
ScheduleReconnect(attempts, tm) ==
  IF attempts >= maxReconnectAttempts
  THEN [attempts |-> attempts, timers |-> tm, errors |-> 1]
  ELSE [attempts |-> attempts + 1,
        timers |-> BagAdd(tm, reconnectDelay * (attempts + 1)),
        errors |-> 0]

\* initialize(): a new Client becomes this.client and its initialize() is
\* awaited.
Initialize(hs, og, who) ==
  [client |-> NewHandle,
   hstate |-> [hs EXCEPT ![NewHandle] = "init"],
   initCaller |-> [og EXCEPT ![NewHandle] = who]]

\* whatsappService.initialize() at the end of the server's start-up.
Startup ==
  /\ Running
  /\ \A h \in Handles : hstate[h] = "none"
  /\ LET i == Initialize(hstate, initCaller, "startup")
     IN /\ client' = i.client
        /\ hstate' = i.hstate
        /\ initCaller' = i.initCaller
  /\ UNCHANGED <<isClientReady, qrCodeData, reconnectAttempts, timers, tasks,
                 isShuttingDown, sd, lastAck, auxVars, recentSend, recycled,
                 whatsappErrors, requests>>
  /\ UNCHANGED <<queueVars, ledgerVars>>

\* The 'qr' handler without the reset of reconnectAttempts.
OnQr_NoReset(h) ==
  /\ Running
  /\ hstate[h] \in {"init", "qr"}
  /\ hstate' = [hstate EXCEPT ![h] = "qr"]
  /\ initCaller' = [initCaller EXCEPT ![h] = "none"]
  /\ qrCodeData' = h
  /\ UNCHANGED reconnectAttempts
  /\ UNCHANGED <<client, isClientReady, timers, tasks, isShuttingDown, sd,
                 lastAck, auxVars, recentSend, recycled, whatsappErrors, requests>>
  /\ UNCHANGED <<queueVars, ledgerVars>>

\* client.on('qr')
OnQr(h) ==
  /\ Running
  /\ hstate[h] \in {"init", "qr"}
  /\ hstate' = [hstate EXCEPT ![h] = "qr"]
  /\ initCaller' = [initCaller EXCEPT ![h] = "none"]
  /\ qrCodeData' = h
  /\ reconnectAttempts' = 0
  /\ UNCHANGED <<client, isClientReady, timers, tasks, isShuttingDown, sd,
                 lastAck, auxVars, recentSend, recycled, whatsappErrors, requests>>
  /\ UNCHANGED <<queueVars, ledgerVars>>

\* client.on('authenticated')
OnAuthenticated(h) ==
  /\ Running
  /\ hstate[h] \in {"init", "qr"}
  /\ hstate' = [hstate EXCEPT ![h] = "auth"]
  /\ initCaller' = [initCaller EXCEPT ![h] = "none"]
  /\ UNCHANGED <<client, isClientReady, qrCodeData, reconnectAttempts, timers,
                 tasks, isShuttingDown, sd, lastAck, auxVars, recentSend, recycled,
                 whatsappErrors, requests>>
  /\ UNCHANGED <<queueVars, ledgerVars>>

\* The 'ready' handler without its call of startQueueProcessor.
OnReady_NoWake(h) ==
  /\ Running
  /\ hstate[h] = "auth"
  /\ hstate' = [hstate EXCEPT ![h] = "ready"]
  /\ isClientReady' = TRUE
  /\ notified' = TRUE
  /\ reconnectAttempts' = 0
  /\ qrCodeData' = NoHandle
  /\ UNCHANGED <<messageQueue, emitted, started, failedItems, workers,
                 isProcessingQueue>>
  /\ UNCHANGED <<client, initCaller, timers, tasks, isShuttingDown, sd,
                 lastAck, formatted, files, cleanups, payload, recentSend, recycled,
                 whatsappErrors, requests,
                 sentVia>>
  /\ UNCHANGED ledgerVars

\* client.on('ready'): 'whatsapp-status' with isReady true is emitted.
OnReady(h) ==
  /\ Running
  /\ hstate[h] = "auth"
  /\ hstate' = [hstate EXCEPT ![h] = "ready"]
  /\ isClientReady' = TRUE
  /\ notified' = TRUE
  /\ reconnectAttempts' = 0
  /\ qrCodeData' = NoHandle
  /\ LET r == StartQueueProcessor(Core, workers, isProcessingQueue, TRUE,
                                  isShuttingDown, client)
     IN /\ SetCore(r.core)
        /\ workers' = r.workers
        /\ isProcessingQueue' = r.processing
  /\ UNCHANGED <<client, initCaller, timers, tasks, isShuttingDown, sd,
                 lastAck, formatted, files, cleanups, payload, recentSend, recycled,
                 whatsappErrors, requests,
                 sentVia>>
  /\ UNCHANGED ledgerVars

\* client.on('auth_failure'): 'whatsapp-auth-failure' is emitted, which tells
\* the observers that the session is not ready.
OnAuthFailure(h) ==
  /\ Running
  /\ hstate[h] \in {"init", "auth"}
  /\ hstate' = [hstate EXCEPT ![h] = "lost"]
  /\ initCaller' = [initCaller EXCEPT ![h] = "none"]
  /\ isClientReady' = FALSE
  /\ notified' = FALSE
  /\ LET s == ScheduleReconnect(reconnectAttempts, timers)
     IN /\ reconnectAttempts' = s.attempts
        /\ timers' = s.timers
        /\ whatsappErrors' = whatsappErrors + s.errors
  /\ UNCHANGED <<client, qrCodeData, tasks, isShuttingDown, sd, lastAck,
                 formatted, files, cleanups, payload,
                 recentSend, recycled, requests>>
  /\ UNCHANGED <<queueVars, ledgerVars>>

\* A 'disconnected' handler that empties the queue.
OnDisconnected_DropsQueue(h) ==
  /\ Running
  /\ hstate[h] \in {"qr", "auth", "ready"}
  /\ hstate' = [hstate EXCEPT ![h] = "lost"]
  /\ isClientReady' = FALSE
  /\ notified' = FALSE
  /\ LET s == IF ~isShuttingDown
              THEN ScheduleReconnect(reconnectAttempts, timers)
              ELSE [attempts |-> reconnectAttempts, timers |-> timers, errors |-> 0]
     IN /\ reconnectAttempts' = s.attempts
        /\ timers' = s.timers
        /\ whatsappErrors' = whatsappErrors + s.errors
  /\ UNCHANGED initCaller
  /\ UNCHANGED <<client, qrCodeData, tasks, isShuttingDown, sd, lastAck,
                 formatted, files, cleanups, payload,
                 recentSend, recycled, requests>>
  /\ messageQueue' = <<>>
  /\ UNCHANGED <<isProcessingQueue, workers, emitted, started, sentVia, failedItems>>
  /\ UNCHANGED ledgerVars

\* client.on('disconnected'): 'whatsapp-status' with isReady false is emitted.
OnDisconnected(h) ==
  /\ Running
  /\ hstate[h] \in {"qr", "auth", "ready"}
  /\ hstate' = [hstate EXCEPT ![h] = "lost"]
  /\ isClientReady' = FALSE
  /\ notified' = FALSE
  /\ LET s == IF ~isShuttingDown
              THEN ScheduleReconnect(reconnectAttempts, timers)
              ELSE [attempts |-> reconnectAttempts, timers |-> timers, errors |-> 0]
     IN /\ reconnectAttempts' = s.attempts
        /\ timers' = s.timers
        /\ whatsappErrors' = whatsappErrors + s.errors
  /\ UNCHANGED initCaller
  /\ UNCHANGED <<client, qrCodeData, tasks, isShuttingDown, sd, lastAck,
                 formatted, files, cleanups, payload,
                 recentSend, recycled, requests>>
  /\ UNCHANGED <<queueVars, ledgerVars>>

Booted == \E h \in Handles : hstate[h] # "none"

\* Bound of the model: a caller that will go on to initialize() starts only
\* while a handle is left for it.
Reinitializing == {t \in BagToSet(tasks) : t.kind # "shutdown"}
PendingReinitializations ==
  IF Reinitializing = {} THEN 0
  ELSE BagCardinality([t \in Reinitializing |-> tasks[t]])
CanReinitialize == PendingReinitializations < Cardinality(FreeHandles)
BagRemove(b, e) == b (-) SetToBag({e})

\* gracefulShutdown from its wait loop on: wait while the worker is processing
\* and items are queued; else destroy(), which awaits the client's teardown,
\* or with no client returns at once, and the process exits.
ShutdownCheck(tk) ==
  IF isProcessingQueue /\ Len(messageQueue) > 0
  THEN [sd |-> "waiting", tasks |-> tk, client |-> client,
        ready |-> isClientReady, qr |-> qrCodeData]
  ELSE IF client # NoHandle
  THEN [sd |-> "destroying",
        tasks |-> BagAdd(tk, [kind |-> "shutdown", h |-> client]),
        client |-> client, ready |-> isClientReady, qr |-> qrCodeData]
  ELSE [sd |-> "exited", tasks |-> tk, client |-> NoHandle, ready |-> FALSE,
        qr |-> NoHandle]

SetShutdown(r) ==
  /\ sd' = r.sd
  /\ tasks' = r.tasks
  /\ client' = r.client
  /\ isClientReady' = r.ready
  /\ qrCodeData' = r.qr

\* client.initialize() rejects: initialize() reports the error and rethrows.
\* The reconnection timer's callback catches it and schedules again; the
\* start-up call is not awaited, so the rejection reaches the process's
\* unhandledRejection handler, which shuts down; the route's caller answers
\* 500.
InitializeRejects(h) ==
  /\ Running
  /\ hstate[h] = "init"
  /\ hstate' = [hstate EXCEPT ![h] = "lost"]
  /\ \/ /\ initCaller[h] = "timer"
        /\ LET s == ScheduleReconnect(reconnectAttempts, timers)
           IN /\ reconnectAttempts' = s.attempts
              /\ timers' = s.timers
              /\ whatsappErrors' = whatsappErrors + s.errors
        /\ UNCHANGED <<client, isClientReady, qrCodeData, tasks, sd,
                       isShuttingDown>>
     \/ /\ initCaller[h] = "manual" \/ (initCaller[h] = "startup" /\ sd # "none")
        /\ UNCHANGED <<client, isClientReady, qrCodeData, tasks, sd,
                       isShuttingDown, reconnectAttempts, timers,
                       whatsappErrors>>
     \/ /\ initCaller[h] = "startup" /\ sd = "none"
        /\ isShuttingDown' = TRUE
        /\ SetShutdown(ShutdownCheck(tasks))
        /\ UNCHANGED <<reconnectAttempts, timers, whatsappErrors>>
  /\ initCaller' = [initCaller EXCEPT ![h] = "none"]
  /\ UNCHANGED <<lastAck, auxVars, recentSend, recycled, requests>>
  /\ UNCHANGED <<queueVars, ledgerVars>>

\* The callback of scheduleReconnect's timer, up to its first await: destroy()
\* awaits the client's teardown; with no client it goes on to initialize().
ReconnectTimerFires(delay) ==
  /\ Running
  /\ BagIn(delay, timers)
  /\ timers' = BagRemove(timers, delay)
  /\ IF client # NoHandle
     THEN /\ CanReinitialize
          /\ tasks' = BagAdd(tasks, [kind |-> "timer", h |-> client])
          /\ UNCHANGED <<client, isClientReady, qrCodeData, hstate, initCaller>>
     ELSE /\ FreeHandles # {}
          /\ LET i == Initialize(hstate, initCaller, "timer")
             IN /\ client' = i.client
                /\ hstate' = i.hstate
                /\ initCaller' = i.initCaller
          /\ isClientReady' = FALSE
          /\ qrCodeData' = NoHandle
          /\ UNCHANGED tasks
  /\ UNCHANGED <<reconnectAttempts, isShuttingDown, sd, lastAck, auxVars, recentSend,
                 recycled, whatsappErrors, requests>>
  /\ UNCHANGED <<queueVars, ledgerVars>>

\* POST /api/generate-qr -> generateQR()
GenerateQR ==
  /\ Running
  /\ Booted
  /\ ~isClientReady
  /\ IF client # NoHandle
     THEN /\ CanReinitialize
          /\ tasks' = BagAdd(tasks, [kind |-> "manual", h |-> client])
          /\ UNCHANGED <<client, isClientReady, qrCodeData, hstate, initCaller>>
     ELSE /\ FreeHandles # {}
          /\ LET i == Initialize(hstate, initCaller, "manual")
             IN /\ client' = i.client
                /\ hstate' = i.hstate
                /\ initCaller' = i.initCaller
          /\ isClientReady' = FALSE
          /\ qrCodeData' = NoHandle
          /\ UNCHANGED tasks
  /\ UNCHANGED <<reconnectAttempts, timers, isShuttingDown, sd, lastAck, auxVars,
                 recentSend, recycled, whatsappErrors, requests>>
  /\ UNCHANGED <<queueVars, ledgerVars>>

\* client.destroy() settles: destroy() clears the client and the flags; then
\* the reconnection callback and generateQR go on to initialize(), and
\* gracefulShutdown returns to the signal handler, which exits the process.
DestroyResolves(t) ==
  /\ Running
  /\ BagIn(t, tasks)
  /\ tasks' = BagRemove(tasks, t)
  /\ isClientReady' = FALSE
  /\ qrCodeData' = NoHandle
  /\ IF t.kind = "shutdown"
     THEN /\ client' = NoHandle
          /\ hstate' = [hstate EXCEPT ![t.h] = "destroyed"]
          /\ initCaller' = [initCaller EXCEPT ![t.h] = "none"]
          /\ sd' = "exited"
     ELSE /\ FreeHandles # {}
          /\ LET i == Initialize([hstate EXCEPT ![t.h] = "destroyed"],
                                 [initCaller EXCEPT ![t.h] = "none"], t.kind)
             IN /\ client' = i.client
                /\ hstate' = i.hstate
                /\ initCaller' = i.initCaller
          /\ UNCHANGED sd
  /\ UNCHANGED <<reconnectAttempts, timers, isShuttingDown, lastAck, auxVars,
                 recentSend, recycled, whatsappErrors, requests>>
  /\ UNCHANGED <<queueVars, ledgerVars>>

\* SIGINT / SIGTERM -> gracefulShutdown of the server -> gracefulShutdown of
\* the service, up to its first await.
Shutdown ==
  /\ Running
  /\ Booted
  /\ sd = "none"
  /\ isShuttingDown' = TRUE
  /\ SetShutdown(ShutdownCheck(tasks))
  /\ UNCHANGED <<reconnectAttempts, hstate, initCaller, timers, lastAck, auxVars,
                 recentSend, recycled, whatsappErrors, requests>>
  /\ UNCHANGED <<queueVars, ledgerVars>>

\* The wait loop of gracefulShutdown after its delay(1000).
ShutdownPoll ==
  /\ sd = "waiting"
  /\ SetShutdown(ShutdownCheck(tasks))
  /\ UNCHANGED <<reconnectAttempts, hstate, initCaller, timers, isShuttingDown,
                 lastAck, auxVars, recentSend, recycled, whatsappErrors, requests>>
  /\ UNCHANGED <<queueVars, ledgerVars>>

\* ---------------------------------------------------------------- routes
\* Date.now().toString() at the request: a string, which no queue item id (a
\* number) equals; written as a negative number, where item ids are positive.
OriginalId(n) == 0 - n

\* The recipient and the message of a request are strings: the recipient is
\* absent (empty) or a number; the message is made of text, blanks and the
\* placeholder '[PatientName]'; the patient's name is absent or a text.
Recipients == {<<>>, <<"1">>}
BodyPieces == {"x", " ", "[PatientName]"}
Bodies == UNION {[1..n -> BodyPieces] : n \in 0..MaxBodyLen}
PatientNames == {<<>>, <<"x">>}

RECURSIVE Replace(_, _)

\* processed.split('[PatientName]').join(value)
Replace(template, value) ==
  IF template = <<>> THEN <<>>
  ELSE IF Head(template) = "[PatientName]" THEN value \o Replace(Tail(template), value)
  ELSE <<Head(template)>> \o Replace(Tail(template), value)

RECURSIVE Trim(_)

\* String.prototype.trim
Trim(str) ==
  IF str = <<>> THEN <<>>
  ELSE IF Head(str) = " " THEN Trim(Tail(str))
  ELSE IF str[Len(str)] = " " THEN Trim(SubSeq(str, 1, Len(str) - 1))
  ELSE str

\* processTemplate: '' for an empty template; else the placeholders are
\* replaced by their values ('' when absent) and the result is trimmed.
ProcessTemplate(template, patientName) ==
  IF template = <<>> THEN <<>> ELSE Trim(Replace(template, patientName))

\* The send route with sendMessage's readiness test left out.
SendMessageRequest_NoReadyTest(phoneNumber, message, patientName) ==
  /\ Running
  /\ Booted
  /\ requests < MaxRequests
  /\ IF phoneNumber = <<>> \/ message = <<>>
     THEN UNCHANGED <<queueVars, ledgerVars, requests, payload>>
     ELSE LET id == requests + 1
              a == AddToQueue(Core, workers, isProcessingQueue, isClientReady,
                              isShuttingDown, client, NewItem(id, OriginalId(id)))
              logged == LogMessage(messages, [id |-> id, status |-> "queued"])
          IN /\ SetCore(a.core)
             /\ workers' = a.workers
             /\ isProcessingQueue' = a.processing
             /\ messages' = logged
             /\ messageStats' = UpdateStats(logged)
             /\ recorded' = (id :> "queued") @@ recorded
             /\ requests' = requests + 1
             /\ payload' = [payload EXCEPT ![id] =
                              [phoneNumber |-> phoneNumber,
                               message |-> ProcessTemplate(message, patientName)]]
             /\ UNCHANGED sentVia
  /\ UNCHANGED <<sessionVars, isShuttingDown, sd, lastAck, formatted, files, cleanups,
                 notified, recentSend, recycled, whatsappErrors>>

\* POST /api/send-message: 400 without a recipient or a body; the template is
\* processed; sendMessage throws while the client is not ready (500); else the
\* item is queued (addToQueue) with the recipient and the processed message,
\* and logged as 'queued' under the id addToQueue returned.
SendMessageRequest(phoneNumber, message, patientName) ==
  /\ Running
  /\ Booted
  /\ requests < MaxRequests
  /\ IF phoneNumber = <<>> \/ message = <<>> \/ ~isClientReady
     THEN UNCHANGED <<queueVars, ledgerVars, requests, payload>>
     ELSE LET id == requests + 1
              a == AddToQueue(Core, workers, isProcessingQueue, isClientReady,
                              isShuttingDown, client, NewItem(id, OriginalId(id)))
              logged == LogMessage(messages, [id |-> id, status |-> "queued"])
          IN /\ SetCore(a.core)
             /\ workers' = a.workers
             /\ isProcessingQueue' = a.processing
             /\ messages' = logged
             /\ messageStats' = UpdateStats(logged)
             /\ recorded' = (id :> "queued") @@ recorded
             /\ requests' = requests + 1
             /\ payload' = [payload EXCEPT ![id] =
                              [phoneNumber |-> phoneNumber,
                               message |-> ProcessTemplate(message, patientName)]]
             /\ UNCHANGED sentVia
  /\ UNCHANGED <<sessionVars, isShuttingDown, sd, lastAck, formatted, files, cleanups,
                 notified, recentSend, recycled, whatsappErrors>>

\* The send route with sendMessage's readiness test left out, for a request
\* that has a recipient and a plain message, or lacks the recipient.
SendMessageRoute_NoReadyTest(valid) ==
  SendMessageRequest_NoReadyTest(IF valid THEN <<"1">> ELSE <<>>, <<"x">>, <<>>)

\* POST /api/send-message for a request that has a recipient and a plain
\* message (valid), or lacks the recipient.
SendMessageRoute(valid) ==
  SendMessageRequest(IF valid THEN <<"1">> ELSE <<>>, <<"x">>, <<>>)

\* POST /api/send-report: as the send route, with sendMessageWithAttachment;
\* the item carries the path of the uploaded file when a file came with the
\* request. A valid request has a recipient and a plain message.
SendReportRoute(valid, reportFile) ==
  /\ Running
  /\ Booted
  /\ requests < MaxRequests
  /\ IF ~valid \/ ~isClientReady
     THEN UNCHANGED <<queueVars, ledgerVars, requests, files, payload>>
     ELSE LET id == requests + 1
              a == AddToQueue(Core, workers, isProcessingQueue, isClientReady,
                              isShuttingDown, client, NewItem(id, OriginalId(id)))
              logged == LogMessage(messages, [id |-> id, status |-> "queued"])
          IN /\ SetCore(a.core)
             /\ workers' = a.workers
             /\ isProcessingQueue' = a.processing
             /\ messages' = logged
             /\ messageStats' = UpdateStats(logged)
             /\ recorded' = (id :> "queued") @@ recorded
             /\ requests' = requests + 1
             /\ files' = [files EXCEPT ![id] = IF reportFile THEN "present" ELSE "none"]
             /\ payload' = [payload EXCEPT ![id] =
                              [phoneNumber |-> <<"1">>, message |-> <<"x">>]]
             /\ UNCHANGED sentVia
  /\ UNCHANGED <<sessionVars, isShuttingDown, sd, lastAck, formatted, cleanups,
                 notified, recentSend, recycled, whatsappErrors>>

\* The clean-up timer of processQueueItem fires: the file is deleted when it
\* exists.
CleanupTimerFires(id) ==
  /\ Running
  /\ id \in cleanups
  /\ cleanups' = cleanups \ {id}
  /\ files' = [files EXCEPT ![id] = IF @ = "present" THEN "deleted" ELSE @]
  /\ UNCHANGED <<sessionVars, queueVars, ledgerVars, isShuttingDown, sd, lastAck,
                 formatted, notified, payload, recentSend, recycled,
                 whatsappErrors, requests>>

\* ---------------------------------------------------------- worker steps
\* The loop of startQueueProcessor that leaves isProcessingQueue set when it
\* ends.
Resume_KeepsFlag(w, c) ==
  LET r == WorkerLoop(c, isClientReady, isShuttingDown, client)
  IN /\ SetCore(r.core)
     /\ workers' = [workers EXCEPT ![w] = r.worker]
     /\ UNCHANGED isProcessingQueue

\* The worker resumes in the loop of startQueueProcessor; when the loop ends
\* it clears isProcessingQueue.
Resume(w, c) ==
  LET r == WorkerLoop(c, isClientReady, isShuttingDown, client)
  IN /\ SetCore(r.core)
     /\ workers' = [workers EXCEPT ![w] = r.worker]
     /\ isProcessingQueue' = IF r.worker.pc = "idle" THEN FALSE ELSE isProcessingQueue

\* A send that resolves and puts the item back at the tail of the queue.
SendResolves_Requeues(w) ==
  /\ Running
  /\ workers[w].pc = "sending"
  /\ hstate[workers[w].h] = "ready"
  /\ sentVia' = [sentVia EXCEPT ![workers[w].item.id] = workers[w].h]
  /\ LET c == [Core EXCEPT !.emitted = BagAdd(emitted, SentUpdate(workers[w].item)),
                          !.queue = Append(messageQueue, workers[w].item)]
     IN IF Len(messageQueue) > 0
        THEN /\ SetCore(c)
             /\ workers' = [workers EXCEPT ![w] = [IdleWorker EXCEPT !.pc = "delaying"]]
             /\ UNCHANGED isProcessingQueue
        ELSE Resume(w, c)
  /\ cleanups' = IF files[workers[w].item.id] = "present"
                  THEN cleanups \cup {workers[w].item.id}
                  ELSE cleanups
  /\ recentSend' = TRUE
  /\ UNCHANGED <<sessionVars, isShuttingDown, sd, lastAck, formatted, files,
                 notified, payload, recycled, whatsappErrors, requests>>
  /\ UNCHANGED ledgerVars

\* client.sendMessage resolves: processQueueItem sets the clean-up timer of
\* the file when it sent the file (the item has a filePath and the file
\* exists; it can only go away by a clean-up of this item, which is set here),
\* and emits 'sent'; the loop then waits messageDelay when items are queued,
\* else goes to its condition.
SendResolves(w) ==
  /\ Running
  /\ workers[w].pc = "sending"
  /\ hstate[workers[w].h] = "ready"
  /\ sentVia' = [sentVia EXCEPT ![workers[w].item.id] = workers[w].h]
  /\ LET c == [Core EXCEPT !.emitted = BagAdd(emitted, SentUpdate(workers[w].item))]
     IN IF Len(messageQueue) > 0
        THEN /\ SetCore(c)
             /\ workers' = [workers EXCEPT ![w] = [IdleWorker EXCEPT !.pc = "delaying"]]
             /\ UNCHANGED isProcessingQueue
        ELSE Resume(w, c)
  /\ cleanups' = IF files[workers[w].item.id] = "present"
                  THEN cleanups \cup {workers[w].item.id}
                  ELSE cleanups
  /\ recentSend' = TRUE
  /\ UNCHANGED <<sessionVars, isShuttingDown, sd, lastAck, formatted, files,
                 notified, payload, recycled, whatsappErrors, requests>>
  /\ UNCHANGED ledgerVars

\* client.sendMessage rejects: the catch of startQueueProcessor runs
\* handleQueueItemError and the loop goes on.
SendRejects(w) ==
  /\ Running
  /\ workers[w].pc = "sending"
  /\ Resume(w, HandleQueueItemError(Core, workers[w].item))
  /\ UNCHANGED <<sessionVars, isShuttingDown, sd, lastAck, auxVars, recentSend,
                 recycled, whatsappErrors, requests, sentVia>>
  /\ UNCHANGED ledgerVars

\* delay(messageDelay) elapses.
DelayElapses(w) ==
  /\ Running
  /\ workers[w].pc = "delaying"
  /\ Resume(w, Core)
  /\ recentSend' = FALSE
  /\ UNCHANGED <<sessionVars, isShuttingDown, sd, lastAck, auxVars, recycled,
                 whatsappErrors, requests, sentVia>>
  /\ UNCHANGED ledgerVars

\* getAckStatus
GetAckStatus(ack) ==
  CASE ack = 1 -> "sent"
    [] ack = 2 -> "received"
    [] ack = 3 -> "read"
    [] OTHER -> "pending"

\* client.on('message_ack'): emits 'message-update' with the chat message's
\* id and the status of the level; the event is kept in lastAck.
OnMessageAck(id, ack) ==
  /\ Running
  /\ sentVia[id] # NoHandle
  /\ hstate[sentVia[id]] = "ready"
  /\ lastAck' = <<id, ack>>
  /\ UNCHANGED <<sessionVars, isShuttingDown, sd, requests, whatsappErrors,
                 recycled, recentSend>>
  /\ UNCHANGED <<queueVars, ledgerVars, auxVars>>

\* The 'message-update' event the last message_ack produced.
AckUpdate == [id |-> <<"chat", lastAck[1]>>, status |-> GetAckStatus(lastAck[2])]

\* ------------------------------------------------------------------ spec
Next ==
  \/ Startup
  \/ \E h \in Handles : OnQr(h)
  \/ \E h \in Handles : OnAuthenticated(h)
  \/ \E h \in Handles : OnReady(h)
  \/ \E h \in Handles : OnAuthFailure(h)
  \/ \E h \in Handles : OnDisconnected(h)
  \/ \E h \in Handles : InitializeRejects(h)
  \/ \E n \in 1..maxReconnectAttempts : ReconnectTimerFires(reconnectDelay * n)
  \/ GenerateQR
  \/ \E t \in BagToSet(tasks) : DestroyResolves(t)
  \/ Shutdown
  \/ ShutdownPoll
  \/ \E valid \in BOOLEAN : SendMessageRoute(valid)
  \/ \E w \in 1..MaxWorkers : SendResolves(w)
  \/ \E w \in 1..MaxWorkers : SendRejects(w)
  \/ \E w \in 1..MaxWorkers : DelayElapses(w)

Spec == Init /\ [][Next]_vars

\* The same system with the chat channel's delivery acknowledgements.
NextAck ==
  \/ Next
  \/ \E id \in 1..MaxRequests, ack \in AckLevels : OnMessageAck(id, ack)

SpecAck == Init /\ [][NextAck]_vars

\* Time passes with no task of the program running: messageDelay after the
\* last successful send.
DelayPasses ==
  /\ Running
  /\ recentSend
  /\ recentSend' = FALSE
  /\ UNCHANGED <<sessionVars, queueVars, ledgerVars, isShuttingDown, sd, lastAck, auxVars,
                 recycled, whatsappErrors, requests>>

\* The same system with the passing of time between its tasks.
NextTimed ==
  \/ Next
  \/ DelayPasses

SpecTimed == Init /\ [][NextTimed]_vars

\* The ledger alone: record operations with every status the system produces
\* ('queued' by the routes, 'sent' and 'failed' by the worker, and the values
\* of getAckStatus).
Statuses == {"queued", "failed"} \cup {GetAckStatus(ack) : ack \in AckLevels}
LedgerIds == 1..MaxLedgerIds

\* messageService.logMessage({id, status, ...})
LogMessageCall(id, status) ==
  /\ messages' = LogMessage(messages, [id |-> id, status |-> status])
  /\ messageStats' = UpdateStats(messages')
  /\ recorded' = (id :> status) @@ recorded
  /\ UNCHANGED <<sessionVars, queueVars, isShuttingDown, sd, lastAck, auxVars, recentSend,
                 recycled, whatsappErrors, requests>>

\* messageService.updateMessageStatus(id, status[, error])
UpdateMessageStatusCall(id, status, error) ==
  /\ messages' = UpdateMessageStatus(messages, id, status, error)
  /\ messageStats' = UpdateStats(messages')
  /\ recorded' = (id :> status) @@ recorded
  /\ UNCHANGED <<sessionVars, queueVars, isShuttingDown, sd, lastAck, auxVars, recentSend,
                 recycled, whatsappErrors, requests>>

NextLedger ==
  \/ \E id \in LedgerIds, status \in Statuses : LogMessageCall(id, status)
  \/ \E id \in LedgerIds, status \in Statuses, error \in {"none", "message"} :
       UpdateMessageStatusCall(id, status, error)

SpecLedger == Init /\ [][NextLedger]_vars

\* The ledger near its capacity: it starts one entry short of full, with the
\* entries the send route logged for earlier requests (newest first).
Logged(n) == [i \in 1..n |-> [id |-> MaxLedgerIds + n + 1 - i, status |-> "queued"]]

InitCapacity ==
  /\ client = NoHandle
  /\ isClientReady = FALSE
  /\ qrCodeData = NoHandle
  /\ messageQueue = <<>>
  /\ isProcessingQueue = FALSE
  /\ reconnectAttempts = 0
  /\ isShuttingDown = FALSE
  /\ hstate = [h \in 1..MaxHandles |-> "none"]
  /\ initCaller = [h \in 1..MaxHandles |-> "none"]
  /\ workers = [w \in 1..MaxWorkers |-> IdleWorker]
  /\ timers = EmptyBag
  /\ tasks = EmptyBag
  /\ sd = "none"
  /\ emitted = EmptyBag
  /\ whatsappErrors = 0
  /\ lastAck = <<0, 0>>
  /\ messages = Logged(LedgerCapacity - 1)
  /\ messageStats = UpdateStats(Logged(LedgerCapacity - 1))
  /\ requests = 0
  /\ started = [r \in 1..MaxRequests |-> 0]
  /\ sentVia = [r \in 1..MaxRequests |-> NoHandle]
  /\ failedItems = {}
  /\ recycled = 0
  /\ recentSend = FALSE
  /\ recorded = <<>>
  /\ formatted = <<<<>>, <<>>>>
  /\ files = [r \in 1..MaxRequests |-> "none"]
  /\ cleanups = {}
  /\ notified = FALSE
  /\ payload = [r \in 1..MaxRequests |-> [phoneNumber |-> <<>>, message |-> <<>>]]

NextCapacity ==
  \/ \E id \in LedgerIds : LogMessageCall(id, "queued")
  \/ \E id \in LedgerIds, status \in {"sent", "failed", "read"} :
       UpdateMessageStatusCall(id, status, "message")

SpecCapacity == InitCapacity /\ [][NextCapacity]_vars

\* formatPhoneNumber on strings of digits and separators.
Digits == {"1", "2"}
PhoneChars == Digits \cup {"-"}
PhoneInputs == UNION {[1..n -> PhoneChars] : n \in 0..MaxPhoneLen}
IsDigit(c) == c \in Digits

\* formatPhoneNumber that prepends the country code to every 10-digit number.
FormatPhoneNumber_AlwaysPrefix(phoneNumber) ==
  LET cleaned == SelectSeq(phoneNumber, IsDigit)
  IN IF Len(cleaned) = 10 THEN <<"1">> \o cleaned ELSE cleaned

\* formatPhoneNumber: the non-digits are removed; a 10-digit result that does
\* not start with '1' gets '1' in front.
FormatPhoneNumber(phoneNumber) ==
  LET cleaned == SelectSeq(phoneNumber, IsDigit)
      startsWith1 == Len(cleaned) > 0 /\ Head(cleaned) = "1"
  IN IF ~startsWith1 /\ Len(cleaned) = 10 THEN <<"1">> \o cleaned ELSE cleaned

\* processQueueItem formats the recipient of an item; one call in a run.
FormatPhoneNumberCall ==
  /\ formatted = <<<<>>, <<>>>>
  /\ \E phoneNumber \in PhoneInputs :
       formatted' = <<phoneNumber, FormatPhoneNumber(phoneNumber)>>
  /\ UNCHANGED <<sessionVars, queueVars, ledgerVars, isShuttingDown, sd, lastAck,
                 recentSend, recycled, whatsappErrors, requests, files, cleanups,
                 notified, payload>>

NextFormat == FormatPhoneNumberCall

SpecFormat == Init /\ [][NextFormat]_vars

\* Delivery on a session that is paired once and stays Ready: requests with
\* and without a file, the worker's steps and the clean-up timers.
NextDelivery ==
  \/ Startup
  \/ \E h \in Handles : OnQr(h)
  \/ \E h \in Handles : OnAuthenticated(h)
  \/ \E h \in Handles : OnReady(h)
  \/ \E valid \in BOOLEAN : SendMessageRoute(valid)
  \/ \E valid \in BOOLEAN, reportFile \in BOOLEAN : SendReportRoute(valid, reportFile)
  \/ \E w \in 1..MaxWorkers : SendResolves(w)
  \/ \E w \in 1..MaxWorkers : SendRejects(w)
  \/ \E w \in 1..MaxWorkers : DelayElapses(w)
  \/ \E id \in 1..MaxRequests : CleanupTimerFires(id)

SpecDelivery == Init /\ [][NextDelivery]_vars

\* The same, where every send attempt terminates (client.sendMessage resolves
\* or rejects) and the delay between two sends elapses.
SpecDeliveryFair ==
  /\ SpecDelivery
  /\ WF_vars(\E w \in 1..MaxWorkers : SendResolves(w) \/ SendRejects(w))
  /\ WF_vars(\E w \in 1..MaxWorkers : DelayElapses(w))

\* Send requests of every form on a session that is paired once and stays
\* Ready, and the worker's steps.
NextRequest ==
  \/ Startup
  \/ \E h \in Handles : OnQr(h)
  \/ \E h \in Handles : OnAuthenticated(h)
  \/ \E h \in Handles : OnReady(h)
  \/ \E phoneNumber \in Recipients, message \in Bodies, patientName \in PatientNames :
       SendMessageRequest(phoneNumber, message, patientName)
  \/ \E w \in 1..MaxWorkers : SendResolves(w)
  \/ \E w \in 1..MaxWorkers : SendRejects(w)
  \/ \E w \in 1..MaxWorkers : DelayElapses(w)

SpecRequest == Init /\ [][NextRequest]_vars

\* The session controller alone: no send request arrives, so the queue, the
\* worker and the ledger stay as they start (and gracefulShutdown never
\* waits); more handles can be created.
InitSession ==
  /\ client = NoHandle
  /\ isClientReady = FALSE
  /\ qrCodeData = NoHandle
  /\ messageQueue = <<>>
  /\ isProcessingQueue = FALSE
  /\ reconnectAttempts = 0
  /\ isShuttingDown = FALSE
  /\ hstate = [h \in 1..MaxSessions |-> "none"]
  /\ initCaller = [h \in 1..MaxSessions |-> "none"]
  /\ workers = [w \in 1..MaxWorkers |-> IdleWorker]
  /\ timers = EmptyBag
  /\ tasks = EmptyBag
  /\ sd = "none"
  /\ emitted = EmptyBag
  /\ whatsappErrors = 0
  /\ lastAck = <<0, 0>>
  /\ messages = <<>>
  /\ messageStats = [total |-> 0, sent |-> 0, failed |-> 0, pending |-> 0, queued |-> 0]
  /\ requests = 0
  /\ started = [r \in 1..MaxRequests |-> 0]
  /\ sentVia = [r \in 1..MaxRequests |-> NoHandle]
  /\ failedItems = {}
  /\ recycled = 0
  /\ recentSend = FALSE
  /\ recorded = <<>>
  /\ formatted = <<<<>>, <<>>>>
  /\ files = [r \in 1..MaxRequests |-> "none"]
  /\ cleanups = {}
  /\ notified = FALSE
  /\ payload = [r \in 1..MaxRequests |-> [phoneNumber |-> <<>>, message |-> <<>>]]

NextSession ==
  \/ Startup
  \/ \E h \in Handles : OnQr(h)
  \/ \E h \in Handles : OnAuthenticated(h)
  \/ \E h \in Handles : OnReady(h)
  \/ \E h \in Handles : OnAuthFailure(h)
  \/ \E h \in Handles : OnDisconnected(h)
  \/ \E h \in Handles : InitializeRejects(h)
  \/ \E n \in 1..maxReconnectAttempts : ReconnectTimerFires(reconnectDelay * n)
  \/ GenerateQR
  \/ \E t \in BagToSet(tasks) : DestroyResolves(t)
  \/ Shutdown

SpecSession == InitSession /\ [][NextSession]_vars

\* A destroyed Client that nothing refers to any more is unreachable to the
\* program; its identity is free for a later `new Client`.
Forget(h) ==
  /\ Running
  /\ recycled < MaxRecycles
  /\ hstate[h] = "destroyed"
  /\ client # h /\ qrCodeData # h
  /\ \A t \in BagToSet(tasks) : t.h # h
  /\ \A w \in DOMAIN workers : workers[w].h # h
  /\ \A r \in DOMAIN sentVia : sentVia[r] # h
  /\ hstate' = [hstate EXCEPT ![h] = "none"]
  /\ recycled' = recycled + 1
  /\ UNCHANGED <<client, isClientReady, qrCodeData, reconnectAttempts,
                 initCaller, timers, tasks, isShuttingDown, sd, lastAck, auxVars,
                 recentSend, whatsappErrors, requests>>
  /\ UNCHANGED <<queueVars, ledgerVars>>

\* The session controller alone over a long run: reconnection after
\* reconnection, each with a new Client.
NextBudget ==
  \/ NextSession
  \/ \E h \in Handles : Forget(h)

SpecBudget == Init /\ [][NextBudget]_vars

\* ---------------------------------------------------------------- claims
Slots == 1..MaxWorkers
Sending == {w \in Slots : workers[w].pc = "sending"}
Active == {w \in Slots : workers[w].pc # "idle"}
QueuedIds == {messageQueue[i].id : i \in DOMAIN messageQueue}
InFlightIds == {workers[w].item.id : w \in Sending}
Bumped(w) == [workers[w].item EXCEPT !.attempts = @ + 1]
\* The attempt in flight in slot w ends in this step without having been sent.
AttemptFails(w) ==
  /\ workers[w].pc = "sending"
  /\ workers'[w] # workers[w]
  /\ sentVia'[workers[w].item.id] = sentVia[workers[w].item.id]
LedgerStatus(msgs, id) ==
  IF \E i \in DOMAIN msgs : msgs[i].id = id
  THEN msgs[CHOOSE i \in DOMAIN msgs : msgs[i].id = id].status
  ELSE "absent"

\* C1: an item whose attempt failed below its ceiling goes back to the front
\* of the queue and is the next item the worker takes: in every step in which
\* an attempt fails and the item is retried, the item is either put in front
\* of the unchanged queue or taken again at once; an item that has failed
\* before is only ever at the head of the queue, whatever was enqueued since;
\* and an attempt that starts while such an item is queued is on that item.
C1_RetryOrdering ==
  [][ /\ \A i \in DOMAIN messageQueue' : messageQueue'[i].attempts > 0 => i = 1
      /\ \A w \in Slots :
           (AttemptFails(w) /\ Bumped(w).attempts < Bumped(w).maxAttempts) =>
             \/ /\ messageQueue' = <<Bumped(w)>> \o messageQueue
                /\ started' = started
             \/ /\ messageQueue' = messageQueue
                /\ workers'[w] = [workers[w] EXCEPT !.item = Bumped(w), !.h = client]
                /\ started' = [started EXCEPT ![workers[w].item.id] = @ + 1]
      /\ \A id \in 1..MaxRequests :
           (started'[id] > started[id] /\ messageQueue # <<>>
              /\ Head(messageQueue).attempts > 0) => id = Head(messageQueue).id
    ]_vars

\* C1 witness: item A is in flight on its third attempt while a younger item
\* B, never attempted, waits in the queue.
C1_Witness ==
  \E w \in Sending :
    /\ workers[w].item.attempts = 2
    /\ messageQueue # <<>>
    /\ Head(messageQueue).id > workers[w].item.id
    /\ started[Head(messageQueue).id] = 0

\* C2: at most one activation of the worker loop exists and at most one
\* delivery attempt is in flight, the processing flag is set exactly while an
\* activation exists, and a 'ready' event that arrives while the flag is set
\* leaves the queue, the worker and the flag as they were.
C2_SingleFlight ==
  [][ /\ Cardinality(Active') <= 1
      /\ Cardinality(Sending') <= 1
      /\ isProcessingQueue' <=> Active' # {}
      /\ (isProcessingQueue /\ \E h \in Handles : OnReady(h)) =>
           UNCHANGED <<messageQueue, workers, isProcessingQueue, started, emitted>>
    ]_vars

\* C2 witness: an attempt begun on an earlier handle is still in flight, with
\* an item queued behind it, after a later handle reported ready.
C2_Witness ==
  \E w \in Sending : \E h \in Handles :
    /\ h # workers[w].h
    /\ client = h
    /\ hstate[h] = "ready"
    /\ isProcessingQueue
    /\ messageQueue # <<>>

\* C3: no item is attempted more often than its ceiling; a failed attempt
\* raises the attempt counter by exactly one; the failure that brings the
\* counter to the ceiling drops the item and emits one 'failed' update with
\* the error for it; a dropped item is never queued or attempted again; and
\* every queued item's counter is below its ceiling.
C3_RetryCeiling ==
  [][ /\ \A id \in 1..MaxRequests : started'[id] <= DefaultMaxAttempts
      /\ \A i \in DOMAIN messageQueue' :
           messageQueue'[i].attempts < messageQueue'[i].maxAttempts
      /\ \A w \in Slots : AttemptFails(w) =>
           IF Bumped(w).attempts < Bumped(w).maxAttempts
           THEN /\ \/ \E i \in DOMAIN messageQueue' : messageQueue'[i] = Bumped(w)
                   \/ workers'[w].item = Bumped(w)
                /\ failedItems' = failedItems
                /\ emitted' = emitted
           ELSE /\ failedItems' = failedItems \cup {workers[w].item.id}
                /\ emitted' = BagAdd(emitted, FailedUpdate(Bumped(w)))
                /\ FailedUpdate(Bumped(w)).error # "none"
      /\ \A id \in failedItems' :
           /\ id \notin QueuedIds' \cup InFlightIds'
           /\ id \in failedItems => started'[id] = started[id]
    ]_vars

\* C3 witness: an item has been dropped after exactly three attempts.
C3_Witness ==
  \E id \in failedItems :
    /\ started[id] = DefaultMaxAttempts
    /\ CopiesIn(FailedUpdate(NewItem(id, OriginalId(id))), emitted) = 1

\* C4 (as claimed): once the acknowledgement of level 1 has arrived for a
\* message that was accepted while Ready and sent by the worker, the ledger
\* entry under the id returned to the caller has status 'sent'.
C4_LedgerSentOnAck ==
  \A id \in 1..MaxRequests :
    (sentVia[id] # NoHandle /\ lastAck = <<id, 1>>) =>
      LedgerStatus(messages, id) = "sent"

\* C5 (as claimed): in the step in which an item fails its last attempt, its
\* ledger entry becomes 'failed', it is out of the queue, and the failed count
\* of the statistics goes up by one.
C5_LedgerFailedOnCeiling ==
  [][ \A id \in failedItems' \ failedItems :
        /\ LedgerStatus(messages', id) = "failed"
        /\ id \notin QueuedIds'
        /\ messageStats'.failed = messageStats.failed + 1
    ]_vars

\* A send request is accepted in this step: the new item goes to the tail of
\* the queue.
AcceptedSend ==
  /\ \E valid \in BOOLEAN : SendMessageRoute(valid)
  /\ requests' = requests + 1
  /\ messageQueue' = Append(messageQueue, NewItem(requests + 1, OriginalId(requests + 1)))

C7_ShutdownStopsWorker ==
  [][ /\ isShuttingDown =>
           /\ started' = started
           /\ \A w \in Slots :
                /\ workers[w].pc = "idle" => workers'[w].pc = "idle"
                /\ workers[w].pc = "delaying" => workers'[w].pc \in {"delaying", "idle"}
                /\ workers[w].pc = "sending" =>
                     \/ workers'[w] = workers[w]
                     \/ workers'[w].pc \in {"delaying", "idle"}
      /\ (sd \in {"none", "waiting"} /\ sd' \in {"destroying", "exited"}) =>
           (Sending = {} \/ messageQueue = <<>>)
    ]_vars

\* C7 witness: shutdown was called with an attempt in flight and items
\* queued; the attempt has completed and the worker has left its loop, with
\* the session still Ready and the items still queued.
C7_Witness ==
  /\ sd = "waiting"
  /\ isShuttingDown
  /\ isClientReady
  /\ ~isProcessingQueue
  /\ Active = {}
  /\ messageQueue # <<>>

\* C8 (as claimed): during shutdown the client's teardown is not under way
\* while a delivery attempt is in flight.
C8_DrainBeforeTeardown ==
  (\E t \in BagToSet(tasks) : t.kind = "shutdown") => Sending = {}

\* C9 (as claimed): when shutdown has completed, a status update has been
\* emitted for every item still in the queue.
C9_PendingSurfacedAtShutdown ==
  sd = "exited" =>
    \A i \in DOMAIN messageQueue :
      \E e \in BagToSet(emitted) : e.id = messageQueue[i].originalId

\* C10 (as claimed): once the shutdown flag is set it stays set, no session
\* event schedules a reconnection, and no reconnection timer that fires tears
\* down or re-initializes the session.
C10_ShutdownSuppressesReconnect ==
  [][ isShuttingDown =>
        /\ isShuttingDown'
        /\ \A d \in BagToSet(timers') : CopiesIn(d, timers') <= CopiesIn(d, timers)
        /\ reconnectAttempts' <= reconnectAttempts
        /\ \A t \in BagToSet(tasks') : t.kind = "timer" => CopiesIn(t, tasks') <= CopiesIn(t, tasks)
        /\ \A h \in Handles : initCaller'[h] = "timer" => initCaller[h] = "timer"
    ]_vars

\* C11 (as claimed): at most one reconnection timer is pending at any time.
C11_SingleReconnectTimer == BagCardinality(timers) <= 1

\* A session loss that reaches scheduleReconnect: auth_failure, disconnected
\* (not during shutdown) or a reconnection whose initialize() failed.
SessionLoss ==
  \E h \in Handles :
    \/ OnAuthFailure(h)
    \/ OnDisconnected(h) /\ ~isShuttingDown
    \/ InitializeRejects(h) /\ initCaller[h] = "timer"

\* C12 (as claimed): a session loss with the failure counter at the maximum
\* schedules no reconnection and reports the Failed condition
\* ('whatsapp-error'); when Failed is reported no reconnection is left pending,
\* so nothing re-initializes the session until an external call; and a
\* reconnection is scheduled only with the counter below the maximum, each
\* one counted, so at most maxReconnectAttempts between two resets.
C12_BackoffBudget ==
  [][ /\ (SessionLoss /\ reconnectAttempts >= maxReconnectAttempts) =>
           /\ timers' = timers
           /\ reconnectAttempts' = reconnectAttempts
           /\ whatsappErrors' = whatsappErrors + 1
      /\ whatsappErrors' > whatsappErrors => timers' = EmptyBag
      /\ reconnectAttempts' <= maxReconnectAttempts
      /\ BagCardinality(timers') > BagCardinality(timers) =>
           /\ reconnectAttempts < maxReconnectAttempts
           /\ reconnectAttempts' = reconnectAttempts + 1
    ]_vars

LiveHandles == {h \in Handles : hstate[h] \in {"init", "qr", "auth", "ready"}}

\* C14 (as claimed): while the process runs, at most one session handle is
\* live at any time, and it is the one the service holds: every handle
\* created before it has been torn down (or has lost its session).
C14_SingleActiveHandle ==
  Running =>
    /\ Cardinality(LiveHandles) <= 1
    /\ \A h \in LiveHandles : client = h

\* C15 (as claimed): a delivery attempt that starts while less than
\* messageDelay has passed since the last successful send is started by the
\* worker's delay timer running out, never by anything else.
C15_SpacingNeverSkipped ==
  [][ (started' # started /\ recentSend) => \E w \in Slots : DelayElapses(w) ]_vars

\* C16: items are numbered in the order they are enqueued.  The queue holds
\* them in that order behind whatever is in flight, and an item has had its
\* first delivery attempt only if every item enqueued before it has been
\* attempted and has since been sent or has permanently failed.
C16_FifoNewItems ==
  /\ \A i, j \in DOMAIN messageQueue : i < j => messageQueue[i].id < messageQueue[j].id
  /\ \A id \in InFlightIds : \A q \in QueuedIds : id < q
  /\ \A a, b \in 1..requests :
       (a < b /\ started[b] > 0) =>
         /\ started[a] > 0
         /\ sentVia[a] # NoHandle \/ a \in failedItems

\* C16 witness: the older item was retried after the session was lost, and
\* was sent through a later handle than the one it was first attempted on,
\* before the younger item had its first attempt.
C16_Witness ==
  \E w \in Sending :
    /\ workers[w].item.id = 2
    /\ started[1] >= 2
    /\ sentVia[1] = 2
    /\ hstate[1] \in {"lost", "destroyed"}

EntriesOf(msgs, id) == {i \in DOMAIN msgs : msgs[i].id = id}

\* C17: no two ledger entries share an id, and the entry of every id that
\* was recorded (by logMessage or updateMessageStatus) and is still in the
\* ledger carries the status of the most recent record for that id; the id
\* recorded last is in the ledger.
C17_LedgerUpsert ==
  /\ Cardinality({messages[i].id : i \in DOMAIN messages}) = Len(messages)
  /\ \A id \in DOMAIN recorded :
       /\ Cardinality(EntriesOf(messages, id)) <= 1
       /\ \A i \in EntriesOf(messages, id) : messages[i].status = recorded[id]
  /\ recorded # <<>> => \E i \in DOMAIN messages : messages[i].id \in DOMAIN recorded

\* C17 witness: an id recorded as 'queued' and then updated to 'failed' with
\* an error has one entry, behind the entry of an id recorded later.
C17_Witness ==
  /\ Len(messages) = 2
  /\ \E id \in LedgerIds :
       /\ EntriesOf(messages, id) = {2}
       /\ recorded[id] = "failed"
       /\ messages[2].status = "failed"
       /\ "error" \in DOMAIN messages[2]

\* C18 (as claimed): the aggregate counts add up to the total, which is the
\* number of entries, whatever statuses have been recorded.
C18_StatsSumToTotal ==
  /\ messageStats.total = Len(messages)
  /\ messageStats.sent + messageStats.failed + messageStats.pending
       + messageStats.queued = messageStats.total

\* C19: after every record operation the ledger holds at most LedgerCapacity
\* entries and every id recorded in this run is in it; an insert puts the new
\* entry at the front and keeps the newest of the entries that were there, in
\* their order, dropping only the oldest one when the ledger was full; an
\* update of an existing id leaves the number of entries and their order as
\* they were.
C19_LedgerCapacity ==
  [][ /\ Len(messages') <= LedgerCapacity
      /\ \A id \in DOMAIN recorded' : EntriesOf(messages', id) # {}
      /\ IF messages' # <<>>
            /\ Head(messages').id \notin {messages[i].id : i \in DOMAIN messages}
         THEN /\ Len(messages') = IF Len(messages) < LedgerCapacity
                                  THEN Len(messages) + 1 ELSE LedgerCapacity
              /\ Tail(messages') = SubSeq(messages, 1, Len(messages') - 1)
         ELSE /\ Len(messages') = Len(messages)
              /\ \A i \in DOMAIN messages : messages'[i].id = messages[i].id
    ]_vars

\* C19 witness: the ledger is full after two inserts, the oldest entry it
\* started with is gone, and an entry has been updated since without a
\* further eviction.
C19_Witness ==
  /\ Len(messages) = LedgerCapacity
  /\ messages[LedgerCapacity].id = MaxLedgerIds + 2
  /\ messages[1].id \in LedgerIds
  /\ messages[2].id \in LedgerIds
  /\ messages[2].status = "sent"

Terminal == {"sent", "delivered", "read", "failed"}
TerminalSeen(n) ==
  \E e \in BagToSet(emitted) : e.id = OriginalId(n) /\ e.status \in Terminal

\* C20: no status event carries 'queued' (the worker's updates are 'sent' and
\* 'failed', the acknowledgement mapping never yields 'queued'); a ledger
\* entry with a terminal status is never set to 'queued'; and once a terminal
\* update has been emitted for a message, its ledger entry exists and no
\* record sets it to 'queued': the 'queued' record of the send route is made
\* before.
C20_StatusMonotone ==
  [][ /\ \A e \in BagToSet(emitted') : e.status \in Terminal
      /\ \A ack \in AckLevels : GetAckStatus(ack) # "queued"
      /\ \A n \in 1..MaxRequests :
           /\ LedgerStatus(messages, n) \in Terminal =>
                LedgerStatus(messages', n) # "queued"
           /\ TerminalSeen(n) =>
                /\ LedgerStatus(messages, n) # "absent"
                /\ LedgerStatus(messages', n) = "queued" =>
                     LedgerStatus(messages, n) = "queued"
    ]_vars

\* C20 witness: the first message was sent and the second has failed for
\* good, both updates are out, and the second request's 'queued' record was
\* made after the first message's 'sent' update.
C20_Witness ==
  /\ requests = 2
  /\ TerminalSeen(1) /\ TerminalSeen(2)
  /\ sentVia[1] # NoHandle
  /\ started[2] = DefaultMaxAttempts
  /\ 2 \in failedItems
  /\ Len(messages) = 2

\* C21 (as claimed): the status of the 'message-update' an acknowledgement
\* produces is 'sent' for level 1, 'delivered' for level 2, 'read' for level 3
\* and 'pending' for every other level.
C21_AckMapping ==
  lastAck[1] # 0 =>
    AckUpdate.status = CASE lastAck[2] = 1 -> "sent"
                         [] lastAck[2] = 2 -> "delivered"
                         [] lastAck[2] = 3 -> "read"
                         [] OTHER -> "pending"

\* The digits of a string, in order.
RECURSIVE DigitsOf(_)

DigitsOf(str) ==
  IF str = <<>> THEN <<>>
  ELSE IF Head(str) \in Digits THEN <<Head(str)>> \o DigitsOf(Tail(str))
  ELSE DigitsOf(Tail(str))

\* C22: the result of formatPhoneNumber is '1' followed by the digits of the
\* input when these are 10 digits that do not start with '1', and the digits
\* of the input unchanged otherwise; so it has digits only and is the result
\* for the input with its non-digits removed.
C22_FormatPhoneNumber ==
  LET input == formatted[1]
      result == formatted[2]
      digits == DigitsOf(input)
  IN /\ \A i \in DOMAIN result : result[i] \in Digits
     /\ (Len(digits) = 10 /\ digits[1] # "1") => result = <<"1">> \o digits
     /\ ~(Len(digits) = 10 /\ digits[1] # "1") => result = digits
     /\ result = FormatPhoneNumber(digits)

\* C22 witness: ten digits without the country code, written with a
\* separator, have come out as eleven digits starting with '1'.
C22_Witness ==
  /\ Len(formatted[1]) = 11
  /\ \E i \in DOMAIN formatted[1] : formatted[1][i] = "-"
  /\ Len(formatted[2]) = 11
  /\ formatted[2][1] = "1"
  /\ formatted[2][2] = "2"

\* The item ids that carry an attachment, and those of them on which an
\* attempt has completed (every started attempt but the one in flight).
WithAttachment == {id \in 1..MaxRequests : files[id] # "none"}
AttemptsCompleted(id) == started[id] - (IF id \in InFlightIds THEN 1 ELSE 0)

\* C23 (as claimed): the file of an item is never deleted, nor its deletion
\* scheduled, before an attempt on the item has completed; and once an attempt
\* on an item with an attachment has completed, whether it succeeded or
\* failed, the deletion of the file is pending or done.
C23_AttachmentRelease ==
  \A id \in WithAttachment :
    /\ (files[id] = "deleted" \/ id \in cleanups) => AttemptsCompleted(id) > 0
    /\ AttemptsCompleted(id) > 0 => (files[id] = "deleted" \/ id \in cleanups)

\* The worker is idle and nothing is queued.
Quiescent == messageQueue = <<>> /\ ~isProcessingQueue /\ Active = {}

\* C24: on a session that stays Ready and is not shutting down, with send
\* attempts that terminate: the processing flag is set exactly while a worker
\* is in its loop, and a worker is in its loop whenever items are queued;
\* every item enqueued is eventually sent or reported failed; and the worker
\* is idle with an empty queue again and again.
C24_WorkerRecovers ==
  /\ [](isProcessingQueue <=> Active # {})
  /\ []((messageQueue # <<>> /\ isClientReady /\ ~isShuttingDown) => Active # {})
  /\ \A id \in 1..MaxRequests :
       (requests >= id) ~> (sentVia[id] # NoHandle \/ id \in failedItems)
  /\ []<>Quiescent

\* C24 witness: one item was reported failed, another was sent after a failed
\* attempt, and the worker is idle with an empty queue.
C24_Witness ==
  /\ Quiescent
  /\ \E id \in failedItems : started[id] = DefaultMaxAttempts
  /\ \E id \in 1..MaxRequests : started[id] >= 2 /\ sentVia[id] # NoHandle

\* The correlation ids addToQueue has returned to callers: the ids of the
\* items enqueued so far, under which the route logged them in the ledger.
ReturnedIds == 1..requests

\* C25 (as claimed): every 'sent' or 'failed' update emitted for an item
\* carries the id addToQueue returned for the item, which is the key of the
\* item's ledger entry; and no two items have the same id.
C25_CorrelationId ==
  /\ \A u \in BagToSet(emitted) :
       /\ u.id \in ReturnedIds
       /\ \E i \in DOMAIN messages : messages[i].id = u.id
  /\ \A i, j \in DOMAIN messageQueue : i # j => messageQueue[i].id # messageQueue[j].id

\* C26 (as claimed): while the process runs, a pairing challenge is stored
\* only while the current client is awaiting pairing (its last event was
\* 'qr'); none is stored when the client is authenticated, Ready, lost or torn
\* down.
C26_ChallengeOnlyWhilePairing ==
  (Running /\ qrCodeData # NoHandle) =>
    /\ client # NoHandle
    /\ hstate[client] = "qr"
    /\ ~isClientReady

\* C27 (as claimed): every step that changes isReady() emits a notification
\* of the new value, so that the readiness last notified to the observers
\* equals isReady() after the step.
C27_ReadinessNotified ==
  [][isClientReady' # isClientReady => notified' = isClientReady']_vars

\* C28: the step of a 'qr' event and the step of a 'ready' event leave the
\* failure counter at zero; the counter goes down in no other step; and it
\* stays within 0..maxReconnectAttempts.
C28_CounterReset ==
  [][ /\ (\E h \in Handles : OnQr(h) \/ OnReady(h)) => reconnectAttempts' = 0
      /\ reconnectAttempts' < reconnectAttempts => \E h \in Handles : OnQr(h) \/ OnReady(h)
      /\ reconnectAttempts' \in 0..maxReconnectAttempts
    ]_vars

\* C28 witness: a reconnection was scheduled (its timer is still pending) and
\* the counter is zero again, with the session Ready.
C28_Witness ==
  /\ reconnectAttempts = 0
  /\ timers # EmptyBag
  /\ isClientReady

\* C29 (as claimed): a send request without a recipient or without a message
\* leaves the queue and the ledger unchanged; and every item in the queue or
\* in flight has a non-empty recipient and a non-empty message.
C29_InputErrorsStayOut ==
  [][ /\ \A phoneNumber \in Recipients, message \in Bodies, patientName \in PatientNames :
           (/\ phoneNumber = <<>> \/ message = <<>>
            /\ SendMessageRequest(phoneNumber, message, patientName))
           => UNCHANGED <<messageQueue, workers, messages, messageStats>>
      /\ \A id \in QueuedIds' \cup InFlightIds' :
           /\ payload'[id].phoneNumber # <<>>
           /\ payload'[id].message # <<>>
    ]_vars

\* A step of the worker: a send ends or the delay between two sends elapses.
WorkerStep == \E w \in Slots : SendResolves(w) \/ SendRejects(w) \/ DelayElapses(w)

\* An item is popped from the queue in every step that starts an attempt, and
\* then the client is ready (in the 'ready' handler: has just been set ready)
\* and the shutdown flag is not set.
PopOnlyWhenReady ==
  started' # started => isClientReady' /\ ~isShuttingDown /\ ~isShuttingDown'

\* C30 (as claimed): an item is popped only while the session is Ready and
\* not shutting down; and a step the worker takes while the session is not
\* Ready leaves the queue as it is.
C30_QueueUntouchedWhileNotReady ==
  [][ /\ PopOnlyWhenReady
      /\ (WorkerStep /\ ~isClientReady) => messageQueue' = messageQueue
    ]_vars

\* C30 (amended): an item is popped only while the session is Ready and not
\* shutting down; a step the worker takes while the session is not Ready pops
\* nothing and leaves the queued items in place and in order, except that the
\* item whose attempt was in flight and failed is put back at the front.
C30_NoPopWhileNotReady ==
  [][ /\ PopOnlyWhenReady
      /\ (WorkerStep /\ ~isClientReady) =>
           /\ started' = started
           /\ \/ messageQueue' = messageQueue
              \/ \E w \in Sending :
                   /\ SendRejects(w)
                   /\ messageQueue' = <<Bumped(w)>> \o messageQueue
    ]_vars

\* C30 witness: the session is not Ready, the worker has ended its loop, and
\* the item whose attempt failed is back at the front of the queue before an
\* item that was never attempted.
C30_Witness ==
  /\ Running
  /\ ~isClientReady
  /\ Active = {}
  /\ Len(messageQueue) >= 2
  /\ messageQueue[1].attempts >= 1
  /\ messageQueue[2].attempts = 0

\* A reconnection timer fires in this step.
TimerFires == \E n \in 1..maxReconnectAttempts : ReconnectTimerFires(reconnectDelay * n)

\* C31 (as claimed): when a reconnection timer fires, the session is not
\* Ready, the client it tears down (if any) has lost its session, and no
\* delivery attempt is in flight on that client.
C31_TimerSparesReadySession ==
  [][ TimerFires =>
        /\ ~isClientReady
        /\ client # NoHandle => hstate[client] = "lost"
        /\ \A w \in Sending : workers[w].h # client
    ]_vars

\* C32: while the process runs, in every state between two handlers, when
\* items are queued, the session is Ready and the shutdown flag is not set,
\* isProcessingQueue is set and an activation of the worker loop exists.
C32_NoLostWakeup ==
  (Running /\ messageQueue # <<>> /\ isClientReady /\ ~isShuttingDown) =>
    isProcessingQueue /\ Active # {}

\* C32 witness: the session was lost with items queued and restored on a
\* later client; an item that waited is in flight on the new client and
\* another is still queued.
C32_Witness ==
  /\ Running
  /\ isClientReady
  /\ ~isShuttingDown
  /\ messageQueue # <<>>
  /\ \E w \in Sending :
       /\ workers[w].h = client
       /\ workers[w].item.attempts >= 1
       /\ \E h \in Handles : h # client /\ hstate[h] = "destroyed"

\* The number of 'sent' updates the worker has emitted for item id.
SentUpdates(id) == CopiesIn(SentUpdate(NewItem(id, OriginalId(id))), emitted)

\* C33: an item whose send has resolved is not in the queue, not in flight
\* and not reported failed, and exactly one 'sent' update was emitted for it;
\* for an item whose send has not resolved no 'sent' update was emitted.
C33_NoDuplicateDelivery ==
  \A id \in 1..MaxRequests :
    IF sentVia[id] # NoHandle
    THEN /\ id \notin QueuedIds \cup InFlightIds
         /\ id \notin failedItems
         /\ SentUpdates(id) = 1
    ELSE SentUpdates(id) = 0

\* C33 witness: the first item was sent on a retry, and the second item is in
\* flight after it.
C33_Witness ==
  /\ sentVia[1] # NoHandle
  /\ started[1] >= 2
  /\ 2 \in InFlightIds

\* How many of the four places an accepted item can be in hold item id.
QueuePositions(id) == Cardinality({i \in DOMAIN messageQueue : messageQueue[i].id = id})
ReportedFailed(id) ==
  /\ id \in failedItems
  /\ \E e \in BagToSet(emitted) : e.id = OriginalId(id) /\ e.status = "failed"
Places(id) ==
  QueuePositions(id)
  + (IF id \in InFlightIds THEN 1 ELSE 0)
  + (IF sentVia[id] # NoHandle THEN 1 ELSE 0)
  + (IF id \in failedItems THEN 1 ELSE 0)

\* C34: while the process runs, every accepted item is in exactly one place:
\* once in the queue, in flight, sent, or failed with its 'failed' update
\* emitted; no other item is anywhere; and the queue holds its items in the
\* order of their acceptance, so that no event removes or reorders them.
C34_NoSilentLoss ==
  Running =>
    /\ \A id \in 1..requests :
         /\ Places(id) = 1
         /\ id \in failedItems => ReportedFailed(id)
    /\ \A id \in (requests + 1)..MaxRequests : Places(id) = 0
    /\ \A i, j \in DOMAIN messageQueue : i < j => messageQueue[i].id < messageQueue[j].id

\* C34 witness: after a session loss and the teardown of the lost client, the
\* new client is not ready yet and both items are still queued in order, the
\* first with a failed attempt behind it.
C34_Witness ==
  /\ Running
  /\ ~isClientReady
  /\ \E h \in Handles : h # client /\ hstate[h] = "destroyed"
  /\ client # NoHandle
  /\ Len(messageQueue) = 2
  /\ messageQueue[1].attempts >= 1

\* The program where every send attempt settles, the delay between two sends
\* elapses, the wait of gracefulShutdown polls again, and the teardown of the
\* client that shutdown awaits ends.
SpecFair ==
  /\ Spec
  /\ WF_vars(\E w \in Slots : SendResolves(w) \/ SendRejects(w))
  /\ WF_vars(\E w \in Slots : DelayElapses(w))
  /\ WF_vars(ShutdownPoll)
  /\ WF_vars(\E t \in BagToSet(tasks) : t.kind = "shutdown" /\ DestroyResolves(t))

\* Once the shutdown flag is set, gracefulShutdown completes and the process
\* exits.
ShutdownTerminates == isShuttingDown ~> sd = "exited"

\* C35 (as claimed): when gracefulShutdown has completed, the session is not
\* Ready, no client is held and the worker is idle, its flag clear.
C35_ShutdownCompletesIdle ==
  sd = "exited" =>
    /\ ~isClientReady
    /\ client = NoHandle
    /\ Active = {}
    /\ ~isProcessingQueue

====
